---------------------------- MODULE Spec2Model ----------------------------
(***************************************************************************)
(* A model of etcdserver/member.go: member identity derivation            *)
(* (NewMember), deep copy (Member.Clone), the store codec (nodeToMember)  *)
(* and the version probe (getVersion).                                    *)
(*                                                                         *)
(* Go strings that the code concatenates or compares (peer URLs, the      *)
(* cluster name) are sequences of bytes.  Strings the code only moves     *)
(* around (names, URLs inside the codec and Clone, path segments) are     *)
(* TLA+ strings.  A Go slice that may be nil is a record                  *)
(* [isNil, elems] in the value-level components and an address into a     *)
(* heap of backing arrays in the Clone component, where sharing matters.  *)
(***************************************************************************)
EXTENDS Integers, Sequences, FiniteSets, TLC

VARIABLES
    \* NewMember
    nmArgs,     \* the arguments of the call: [name, peerURLs, clusterName, now]
    nmRet,      \* the call's outcome: [done, failed, m]
    \* getVersion
    gvURLs,     \* m.PeerURLs of the probed member
    gvPc,       \* "idle" | "loop" | "done"
    gvIdx,      \* index of the next element of the range loop
    gvErr,      \* the function-scope variable err (line 163)
    gvRet,      \* the returned pair [version, err]
    gvTrace,    \* the requests issued so far, each with what the network did
    \* nodeToMember
    rec,        \* the record handed to the encoder, if any
    node,       \* the store subtree n: [key, nodes]
    dec,        \* the decoder's outcome: [done, hasM, m, err]
    \* Member.Clone
    heap,       \* backing arrays of the slices: address -> sequence of strings
    orig,       \* the receiver m (a pointer that may be nil)
    copy,       \* the returned pointer mm
    clPc,       \* "idle" | "start" | "cloned"
    clMuts      \* number of element writes done after the clone

nmVars == <<nmArgs, nmRet>>
gvVars == <<gvURLs, gvPc, gvIdx, gvErr, gvRet, gvTrace>>
cdVars == <<rec, node, dec>>
clVars == <<heap, orig, copy, clPc, clMuts>>
vars == <<nmVars, gvVars, cdVars, clVars>>

---------------------------------------------------------------------------
(* Bounds *)
MaxURLLen == 2      \* bytes in a peer URL handed to NewMember
MaxSaltLen == 1     \* bytes in the cluster name
MaxURLs == 2        \* peer URLs of a member
MaxTime == 10       \* largest Unix time of `now`

\* The bytes strings are made of: '1' and 'a'.
Alphabet == {49, 97}

RECURSIVE SeqsUpTo(_, _)
SeqsUpTo(S, n) ==
    IF n = 0 THEN {<<>>}
    ELSE LET shorter == SeqsUpTo(S, n - 1)
         IN  shorter \cup {Append(s, x) : s \in {t \in shorter : Len(t) = n - 1}, x \in S}

---------------------------------------------------------------------------
(* NewMember *)

\* Go's string comparison: bytewise lexicographic, a proper prefix is smaller.
RECURSIVE StrLess(_, _)
StrLess(a, b) ==
    IF Len(b) = 0 THEN FALSE
    ELSE IF Len(a) = 0 THEN TRUE
    ELSE IF Head(a) # Head(b) THEN Head(a) < Head(b)
    ELSE StrLess(Tail(a), Tail(b))

RECURSIVE InsertSorted(_, _)
InsertSorted(s, x) ==
    IF Len(s) = 0 THEN <<x>>
    ELSE IF StrLess(x, Head(s)) THEN <<x>> \o s
    ELSE <<Head(s)>> \o InsertSorted(Tail(s), x)

\* sort.Strings: the slice's elements in increasing order.
RECURSIVE SortStrings(_)
SortStrings(s) ==
    IF Len(s) = 0 THEN <<>>
    ELSE InsertSorted(SortStrings(Tail(s)), Head(s))

RECURSIVE Concat(_)
Concat(ss) ==
    IF Len(ss) = 0 THEN <<>> ELSE Head(ss) \o Concat(Tail(ss))

\* fmt.Sprintf("%d", n): the decimal digits of n, '-' first when negative.
RECURSIVE Digits(_)
Digits(n) ==
    IF n < 10 THEN <<48 + n>> ELSE Append(Digits(n \div 10), 48 + (n % 10))

SprintfD(n) ==
    IF n < 0 THEN <<45>> \o Digits(0 - n) ELSE Digits(n)

\* The bytes lines 61-70 collect in b from the sorted slice.
DigestInputNoTime(sorted, clusterName, now) ==
    Concat(sorted) \o clusterName

DigestInput(sorted, clusterName, now) ==
    Concat(sorted) \o clusterName
        \o (IF now.present THEN SprintfD(now.unix) ELSE <<>>)

\* sha1.Sum followed by binary.BigEndian.Uint64(hash[:8]).  The digest is
\* kept as a function of its input and nothing more: a polynomial checksum
\* that fits TLC's integers stands where SHA-1 truncated to 64 bits is.
RECURSIVE Sum(_, _)
Sum(b, acc) ==
    IF Len(b) = 0 THEN acc
    ELSE Sum(Tail(b), (acc * 31 + Head(b) + 1) % 65521)

IDOfDigest(b) == Sum(b, 7)

\* NewMember, lines 55-75.  There is no error result and no check of the
\* arguments: failed is always FALSE.
NewMemberUnsorted(name, peerURLs, clusterName, now) ==
    [done |-> TRUE, failed |-> FALSE,
     m |-> [ID |-> IDOfDigest(DigestInput(peerURLs, clusterName, now)),
            PeerURLs |-> peerURLs,
            Name |-> name]]

NewMemberSortCopy(name, peerURLs, clusterName, now) ==
    [done |-> TRUE, failed |-> FALSE,
     m |-> [ID |-> IDOfDigest(DigestInput(SortStrings(peerURLs), clusterName, now)),
            PeerURLs |-> peerURLs,
            Name |-> name]]

NewMember(name, peerURLs, clusterName, now) ==
    LET sorted == SortStrings(peerURLs)   \* sort.Strings(m.PeerURLs), in place
    IN  [done |-> TRUE, failed |-> FALSE,
         m |-> [ID |-> IDOfDigest(DigestInput(sorted, clusterName, now)),
                PeerURLs |-> sorted,
                Name |-> name]]

\* A peer URL has at least one byte; the cluster name may be empty.
URLStrings == SeqsUpTo(Alphabet, MaxURLLen) \ {<<>>}
SaltStrings == SeqsUpTo(Alphabet, MaxSaltLen)
NoTime == [present |-> FALSE, unix |-> 0]
Times == {NoTime} \cup {[present |-> TRUE, unix |-> t] : t \in 0..MaxTime}
NmNone == [done |-> FALSE, failed |-> FALSE,
           m |-> [ID |-> 0, PeerURLs |-> <<>>, Name |-> ""]]
NmIdleArgs == [name |-> "", peerURLs |-> <<>>, clusterName |-> <<>>, now |-> NoTime]

NmInit ==
    /\ nmArgs \in [name : {"m1"},
                   peerURLs : SeqsUpTo(URLStrings, MaxURLs),
                   clusterName : SaltStrings,
                   now : Times]
    /\ nmRet = NmNone

NmIdle ==
    /\ nmArgs = NmIdleArgs
    /\ nmRet = NmNone

CallNewMember ==
    /\ ~nmRet.done
    /\ nmArgs # NmIdleArgs
    /\ nmRet' = NewMember(nmArgs.name, nmArgs.peerURLs, nmArgs.clusterName, nmArgs.now)
    /\ UNCHANGED <<nmArgs, gvVars, cdVars, clVars>>

---------------------------------------------------------------------------
(* getVersion *)

Endpoints == {"http://down:1", "http://up:2"}
\* vers.Server of a body that parses; empty when the body has no "server" key.
Versions == {"", "2.1.0", "3.5.0"}

NilErr == [isNil |-> TRUE, stage |-> "", idx |-> 0]
\* The error value produced for the idx-th element of m.PeerURLs at a stage
\* ("transport": cc.Get, "read": ioutil.ReadAll, "parse": json.Unmarshal).
ErrAt(stage, idx) == [isNil |-> FALSE, stage |-> stage, idx |-> idx]
NoRet == [version |-> "", err |-> NilErr]

\* One request: GET u + "/version", with what came of it.
Request(u, kind, version) ==
    [url |-> u, path |-> "/version", kind |-> kind, version |-> version]

GvInit ==
    /\ gvURLs \in SeqsUpTo(Endpoints, MaxURLs)
    /\ gvPc = "loop"
    /\ gvIdx = 1
    /\ gvErr = NilErr
    /\ gvRet = NoRet
    /\ gvTrace = <<>>

GvIdle ==
    /\ gvURLs = <<>>
    /\ gvPc = "idle"
    /\ gvIdx = 1
    /\ gvErr = NilErr
    /\ gvRet = NoRet
    /\ gvTrace = <<>>

InLoop == gvPc = "loop" /\ gvIdx <= Len(gvURLs)

\* Lines 168-171: cc.Get fails; its error is assigned to the function's err.
GetFails ==
    /\ InLoop
    /\ gvTrace' = Append(gvTrace, Request(gvURLs[gvIdx], "transport", ""))
    /\ gvErr' = ErrAt("transport", gvIdx)
    /\ gvIdx' = gvIdx + 1
    /\ UNCHANGED <<gvURLs, gvPc, gvRet, nmVars, cdVars, clVars>>

\* Lines 168-176: cc.Get succeeds (err = nil), ioutil.ReadAll fails.  The
\* `b, err :=` of line 172 declares a new err in the loop body: the
\* function's err keeps the nil of the successful Get.
ReadFails ==
    /\ InLoop
    /\ gvTrace' = Append(gvTrace, Request(gvURLs[gvIdx], "read", ""))
    /\ gvErr' = NilErr
    /\ gvIdx' = gvIdx + 1
    /\ UNCHANGED <<gvURLs, gvPc, gvRet, nmVars, cdVars, clVars>>

\* Lines 168-180: the body is read, json.Unmarshal fails.  Its err is local
\* to the if statement of line 178.
ParseFails ==
    /\ InLoop
    /\ gvTrace' = Append(gvTrace, Request(gvURLs[gvIdx], "parse", ""))
    /\ gvErr' = NilErr
    /\ gvIdx' = gvIdx + 1
    /\ UNCHANGED <<gvURLs, gvPc, gvRet, nmVars, cdVars, clVars>>

SucceedsKeepGoing ==
    /\ InLoop
    /\ \E v \in Versions :
         /\ gvTrace' = Append(gvTrace, Request(gvURLs[gvIdx], "ok", v))
         /\ gvRet' = [version |-> v, err |-> NilErr]
    /\ gvErr' = NilErr
    /\ gvIdx' = gvIdx + 1
    /\ UNCHANGED <<gvURLs, gvPc, nmVars, cdVars, clVars>>

\* Lines 168-181: the response parses; return vers.Server, nil.
Succeeds ==
    /\ InLoop
    /\ \E v \in Versions :
         /\ gvTrace' = Append(gvTrace, Request(gvURLs[gvIdx], "ok", v))
         /\ gvRet' = [version |-> v, err |-> NilErr]
    /\ gvErr' = NilErr
    /\ gvPc' = "done"
    /\ UNCHANGED <<gvURLs, gvIdx, nmVars, cdVars, clVars>>

\* Line 183: the loop is over; return "", err.
ReturnLast ==
    /\ gvPc = "loop"
    /\ gvIdx > Len(gvURLs)
    /\ gvRet' = [version |-> "", err |-> gvErr]
    /\ gvPc' = "done"
    /\ UNCHANGED <<gvURLs, gvIdx, gvErr, gvTrace, nmVars, cdVars, clVars>>

GvNext == GetFails \/ ReadFails \/ ParseFails \/ Succeeds \/ ReturnLast

---------------------------------------------------------------------------
(* The store codec: nodeToMember and the JSON shapes of lines 35-51 *)

MaxID == 16         \* largest member ID

NilSlice == [isNil |-> TRUE, elems |-> <<>>]
Slice(elems) == [isNil |-> FALSE, elems |-> elems]

CodecURLs == {"http://a:1", "http://b:2"}
CodecNames == {"", "m1"}
SliceVals == {NilSlice} \cup {Slice(e) : e \in SeqsUpTo(CodecURLs, MaxURLs)}
IDs == 0..MaxID

\* A JSON value: absent (no such key in the object), null, a number, a
\* string or an array of strings.
JAbsent == [t |-> "absent", s |-> "", a |-> <<>>]
JNull == [t |-> "null", s |-> "", a |-> <<>>]
JNum == [t |-> "num", s |-> "", a |-> <<>>]
JStr(s) == [t |-> "str", s |-> s, a |-> <<>>]
JArr(a) == [t |-> "arr", s |-> "", a |-> a]

\* A stored blob: text that is no JSON at all, the document null, or an
\* object, given by the values of the three keys the structs name.
NoFields == [peerURLs |-> JAbsent, name |-> JAbsent, clientURLs |-> JAbsent]
Garbage == [t |-> "garbage", o |-> NoFields]
DocNull == [t |-> "null", o |-> NoFields]
Obj(p, nm, c) == [t |-> "obj", o |-> [peerURLs |-> p, name |-> nm, clientURLs |-> c]]

\* json.Marshal of RaftAttributes (line 38: `json:"peerURLs"`): the key is
\* always written, a nil slice as null.
MarshalRaftAttributes(peerURLs) ==
    Obj(IF peerURLs.isNil THEN JNull ELSE JArr(peerURLs.elems), JAbsent, JAbsent)

\* json.Marshal of Attributes (lines 43-44: both keys omitempty): an empty
\* string and a slice of length 0, nil or not, are left out.
MarshalAttributes(name, clientURLs) ==
    Obj(JAbsent,
        IF name = "" THEN JAbsent ELSE JStr(name),
        IF Len(clientURLs.elems) = 0 THEN JAbsent ELSE JArr(clientURLs.elems))

\* json.Unmarshal of one key into a []string field holding cur.
SliceField(cur, v) ==
    IF v.t = "absent" THEN [val |-> cur, ok |-> TRUE]
    ELSE IF v.t = "null" THEN [val |-> NilSlice, ok |-> TRUE]
    ELSE IF v.t = "arr" THEN [val |-> Slice(v.a), ok |-> TRUE]
    ELSE [val |-> cur, ok |-> FALSE]

\* json.Unmarshal of one key into a string field holding cur.
StringField(cur, v) ==
    IF v.t \in {"absent", "null"} THEN [val |-> cur, ok |-> TRUE]
    ELSE IF v.t = "str" THEN [val |-> v.s, ok |-> TRUE]
    ELSE [val |-> cur, ok |-> FALSE]

\* json.Unmarshal(data, &m.RaftAttributes): keys the struct does not name
\* are ignored.
UnmarshalRaftAttributes(peerURLs, doc) ==
    IF doc.t = "garbage" THEN [PeerURLs |-> peerURLs, ok |-> FALSE]
    ELSE IF doc.t = "null" THEN [PeerURLs |-> peerURLs, ok |-> TRUE]
    ELSE LET f == SliceField(peerURLs, doc.o.peerURLs)
         IN  [PeerURLs |-> f.val, ok |-> f.ok]

\* json.Unmarshal(data, &m.Attributes): a key of the wrong type is an error
\* and the other key is still decoded.
UnmarshalAttributes(name, clientURLs, doc) ==
    IF doc.t = "garbage" THEN [Name |-> name, ClientURLs |-> clientURLs, ok |-> FALSE]
    ELSE IF doc.t = "null" THEN [Name |-> name, ClientURLs |-> clientURLs, ok |-> TRUE]
    ELSE LET n == StringField(name, doc.o.name)
             c == SliceField(clientURLs, doc.o.clientURLs)
         IN  [Name |-> n.val, ClientURLs |-> c.val, ok |-> n.ok /\ c.ok]

\* types.ID.String: the ID in base 16, as a sequence of digit values.
RECURSIVE IDString(_)
IDString(id) ==
    IF id < 16 THEN <<id>> ELSE Append(IDString(id \div 16), id % 16)

\* types.IDFromString: the base 16 number the digits spell.
RECURSIVE IDFromString(_)
IDFromString(s) ==
    IF Len(s) = 0 THEN 0
    ELSE IDFromString(SubSeq(s, 1, Len(s) - 1)) * 16 + s[Len(s)]

storeMembersPrefix == "members"
raftAttributesSuffix == "raftAttributes"
attributesSuffix == "attributes"
unknownSuffix == "unknownField"

\* A key is its path segments; path.Join appends one.
memberStoreKey(id) == <<storeMembersPrefix, IDString(id)>>
MemberAttributesStorePath(id) == Append(memberStoreKey(id), attributesSuffix)
\* path.Base of the key, parsed; the keys of the model are well formed.
mustParseMemberIDFromKey(key) == IDFromString(key[Len(key)])

Child(key, value) == [key |-> key, value |-> value]

\* The values of the children with the given key, in stored order.
ValuesAt(n, key) ==
    LET RECURSIVE pick(_)
        pick(cs) == IF Len(cs) = 0 THEN <<>>
                    ELSE (IF Head(cs).key = key THEN <<Head(cs).value>> ELSE <<>>)
                         \o pick(Tail(cs))
    IN  pick(n.nodes)

ZeroMember(id) == [ID |-> id, PeerURLs |-> NilSlice, Name |-> "", ClientURLs |-> NilSlice]
NoResult == [done |-> FALSE, hasM |-> FALSE, m |-> ZeroMember(0), err |-> ""]
Result(hasM, m, err) == [done |-> TRUE, hasM |-> hasM, m |-> m, err |-> err]

\* nodeToMember, lines 129-153.  checkKeys: the test of line 135 is made;
\* keepPartial: line 149 returns m with the error; attrKey: the key whose
\* value line 147 reads.  A result without a record (return nil, err) has
\* hasM = FALSE and a zero record in m.
NodeToMemberImpl(n, checkKeys, keepPartial, attrKey) ==
    LET id == mustParseMemberIDFromKey(n.key)
        raftAttrKey == Append(n.key, raftAttributesSuffix)
        known == {raftAttrKey, Append(n.key, attributesSuffix)}
        unknown == {i \in 1..Len(n.nodes) : n.nodes[i].key \notin known}
        \* attrs[k]: the value of the last child with key k, nil if none
        raftData == ValuesAt(n, raftAttrKey)
        attrData == ValuesAt(n, attrKey)
    IN  IF checkKeys /\ unknown # {} THEN Result(FALSE, ZeroMember(0), "unknown key")
        ELSE IF Len(raftData) = 0
        THEN Result(FALSE, ZeroMember(0), "raftAttributes key doesn't exist")
        ELSE LET ra == UnmarshalRaftAttributes(NilSlice, raftData[Len(raftData)])
                 m1 == [ZeroMember(id) EXCEPT !.PeerURLs = ra.PeerURLs]
             IN  IF ~ra.ok
                 THEN Result(FALSE, ZeroMember(0), "unmarshal raftAttributes error")
                 ELSE IF Len(attrData) = 0 THEN Result(TRUE, m1, "")
                 ELSE LET at == UnmarshalAttributes(m1.Name, m1.ClientURLs,
                                                    attrData[Len(attrData)])
                          m2 == [m1 EXCEPT !.Name = at.Name, !.ClientURLs = at.ClientURLs]
                      IN  IF ~at.ok
                          THEN Result(keepPartial,
                                      IF keepPartial THEN m2 ELSE ZeroMember(0),
                                      "unmarshal attributes error")
                          ELSE Result(TRUE, m2, "")

nodeToMemberNoKeyCheck(n) ==
    NodeToMemberImpl(n, FALSE, TRUE, Append(n.key, attributesSuffix))

nodeToMemberDropsPartial(n) ==
    NodeToMemberImpl(n, TRUE, FALSE, Append(n.key, attributesSuffix))

nodeToMemberReadsRaftTwice(n) ==
    NodeToMemberImpl(n, TRUE, TRUE, Append(n.key, raftAttributesSuffix))

nodeToMember(n) ==
    NodeToMemberImpl(n, TRUE, TRUE, Append(n.key, attributesSuffix))

\* The writer of a member's subtree: both blobs under the member's key,
\* children sorted by key.
EncodeMember(m) ==
    [key |-> memberStoreKey(m.ID),
     nodes |-> << Child(MemberAttributesStorePath(m.ID),
                        MarshalAttributes(m.Name, m.ClientURLs)),
                  Child(Append(memberStoreKey(m.ID), raftAttributesSuffix),
                        MarshalRaftAttributes(m.PeerURLs)) >>]

Members == [ID : IDs, PeerURLs : SliceVals, Name : CodecNames, ClientURLs : SliceVals]

\* The blobs a child of a stored subtree may hold.
ArrVals == {JArr(e) : e \in SeqsUpTo(CodecURLs, MaxURLs)}
Docs ==
    {Garbage, DocNull}
    \cup {Obj(p, JAbsent, JAbsent) : p \in {JAbsent, JNull, JNum} \cup ArrVals}
    \cup {Obj(JAbsent, nm, c) : nm \in {JAbsent, JNum, JStr("m1")},
                                c \in {JAbsent, JNull, JNum} \cup ArrVals}

\* A subtree with any choice of children, sorted by key.
StoredNode(id, attr, raft, other) ==
    [key |-> memberStoreKey(id),
     nodes |-> (IF attr.has THEN <<Child(MemberAttributesStorePath(id), attr.doc)>> ELSE <<>>)
            \o (IF raft.has THEN <<Child(Append(memberStoreKey(id), raftAttributesSuffix),
                                         raft.doc)>> ELSE <<>>)
            \o (IF other THEN <<Child(Append(memberStoreKey(id), unknownSuffix), Garbage)>>
                ELSE <<>>)]

MaybeDocs == {[has |-> FALSE, doc |-> Garbage]} \cup {[has |-> TRUE, doc |-> d] : d \in Docs}
StoredNodes ==
    {StoredNode(id, a, r, o) : id \in {0, MaxID}, a \in MaybeDocs, r \in MaybeDocs,
                               o \in BOOLEAN}

NoRec == [has |-> FALSE, m |-> ZeroMember(0)]
NoNode == [key |-> <<>>, nodes |-> <<>>]

\* Either a record about to be written, or a subtree found in the store.
CdInit ==
    /\ dec = NoResult
    /\ \/ /\ rec \in [has : {TRUE}, m : Members]
          /\ node = NoNode
       \/ /\ rec = NoRec
          /\ node \in StoredNodes

CdIdle ==
    /\ rec = NoRec
    /\ node = NoNode
    /\ dec = NoResult

Encode ==
    /\ rec.has
    /\ node = NoNode
    /\ node' = EncodeMember(rec.m)
    /\ UNCHANGED <<rec, dec, nmVars, gvVars, clVars>>

Decode ==
    /\ node # NoNode
    /\ ~dec.done
    /\ dec' = nodeToMember(node)
    /\ UNCHANGED <<rec, node, nmVars, gvVars, clVars>>

CdNext == Encode \/ Decode

---------------------------------------------------------------------------
(* Member.Clone *)

MaxMuts == 2        \* element writes after the clone

\* A *Member: isNil for the nil pointer; PeerURLs and ClientURLs are the
\* addresses of the slices' backing arrays in heap, 0 for a nil slice.
NilPtr == [isNil |-> TRUE, ID |-> 0, Name |-> "", PeerURLs |-> 0, ClientURLs |-> 0]

\* make([]string, len(src)) and copy: a new array holding src's elements.
\* The result is the new slice's address and the heap that holds it.
CopySlice(h, addr) ==
    IF addr = 0 THEN [addr |-> 0, heap |-> h]
    ELSE [addr |-> Len(h) + 1, heap |-> Append(h, h[addr])]

CloneShallow(m, h) ==
    IF m.isNil THEN [mm |-> NilPtr, heap |-> h]
    ELSE [mm |-> m, heap |-> h]

\* Clone, lines 86-105.
Clone(m, h) ==
    IF m.isNil THEN [mm |-> NilPtr, heap |-> h]
    ELSE LET p == CopySlice(h, m.PeerURLs)
             c == CopySlice(p.heap, m.ClientURLs)
         IN  [mm |-> [isNil |-> FALSE, ID |-> m.ID, Name |-> m.Name,
                      PeerURLs |-> p.addr, ClientURLs |-> c.addr],
              heap |-> c.heap]

\* The slice at addr as a value: nil, or its elements.
Deref(h, addr) == IF addr = 0 THEN NilSlice ELSE Slice(h[addr])

\* What a *Member holds, slices followed.
View(h, m) ==
    IF m.isNil THEN [isNil |-> TRUE, m |-> ZeroMember(0)]
    ELSE [isNil |-> FALSE,
          m |-> [ID |-> m.ID, PeerURLs |-> Deref(h, m.PeerURLs), Name |-> m.Name,
                 ClientURLs |-> Deref(h, m.ClientURLs)]]

\* The receiver: nil, or a member whose slices have arrays of their own.
ClInit ==
    /\ clPc = "start"
    /\ clMuts = 0
    /\ copy = NilPtr
    /\ \/ /\ orig = NilPtr
          /\ heap = <<>>
       \/ \E id \in {0, MaxID}, nm \in CodecNames, p \in SliceVals, c \in SliceVals :
            LET pa == IF p.isNil THEN 0 ELSE 1
                ca == IF c.isNil THEN 0 ELSE IF p.isNil THEN 1 ELSE 2
            IN  /\ orig = [isNil |-> FALSE, ID |-> id, Name |-> nm,
                           PeerURLs |-> pa, ClientURLs |-> ca]
                /\ heap = (IF p.isNil THEN <<>> ELSE <<p.elems>>)
                          \o (IF c.isNil THEN <<>> ELSE <<c.elems>>)

ClIdle ==
    /\ clPc = "idle"
    /\ clMuts = 0
    /\ copy = NilPtr
    /\ orig = NilPtr
    /\ heap = <<>>

DoClone ==
    /\ clPc = "start"
    /\ LET r == Clone(orig, heap)
       IN  /\ copy' = r.mm
           /\ heap' = r.heap
    /\ clPc' = "cloned"
    /\ UNCHANGED <<orig, clMuts, nmVars, gvVars, cdVars>>

\* s[i] = v on a slice of the member m.
WriteElem(m, field, i, v) ==
    /\ clPc = "cloned"
    /\ clMuts < MaxMuts
    /\ ~m.isNil
    /\ LET addr == IF field = "PeerURLs" THEN m.PeerURLs ELSE m.ClientURLs
       IN  /\ addr # 0
           /\ i \in 1..Len(heap[addr])
           /\ heap[addr][i] # v
           /\ heap' = [heap EXCEPT ![addr][i] = v]
    /\ clMuts' = clMuts + 1
    /\ UNCHANGED <<orig, copy, clPc, nmVars, gvVars, cdVars>>

WriteOrig ==
    \E f \in {"PeerURLs", "ClientURLs"}, i \in 1..MaxURLs, v \in CodecURLs :
        WriteElem(orig, f, i, v)

WriteCopy ==
    \E f \in {"PeerURLs", "ClientURLs"}, i \in 1..MaxURLs, v \in CodecURLs :
        WriteElem(copy, f, i, v)

ClNext == DoClone \/ WriteOrig \/ WriteCopy

---------------------------------------------------------------------------
(* Specifications: one per component, the others idle; Spec is any of them *)

NmNext == CallNewMember

InitNewMember == NmInit /\ GvIdle /\ CdIdle /\ ClIdle
InitGetVersion == NmIdle /\ GvInit /\ CdIdle /\ ClIdle
InitCodec == NmIdle /\ GvIdle /\ CdInit /\ ClIdle
InitClone == NmIdle /\ GvIdle /\ CdIdle /\ ClInit

SpecNewMember == InitNewMember /\ [][NmNext]_vars
SpecGetVersion == InitGetVersion /\ [][GvNext]_vars
SpecCodec == InitCodec /\ [][CdNext]_vars
SpecClone == InitClone /\ [][ClNext]_vars

Init == InitNewMember \/ InitGetVersion \/ InitCodec \/ InitClone

Next == NmNext \/ GvNext \/ CdNext \/ ClNext

Spec == Init /\ [][Next]_vars

---------------------------------------------------------------------------
(* getVersion: properties *)

NoSuccess(trace) == \A k \in 1..Len(trace) : trace[k].kind # "ok"

\* C1: when every endpoint of a member with endpoints fails (at the
\* request, at reading the body or at parsing it), getVersion returns a
\* non-nil error, and it is the failure of the last endpoint.
C1_AllFailReturnsLastFailure ==
    (gvPc = "done" /\ Len(gvURLs) > 0 /\ NoSuccess(gvTrace))
        => /\ ~gvRet.err.isNil
           /\ gvRet.err = ErrAt(gvTrace[Len(gvTrace)].kind, Len(gvTrace))

\* C2: the probe is one sequential sweep.  The requests go to the elements
\* of PeerURLs in stored order, one each and to "/version"; a failure is
\* followed by the next element; nothing is requested after a success; the
\* result is the version of the first element that succeeds, and without a
\* success every element was requested and the version is empty.
C2_SequentialSweep ==
    /\ Len(gvTrace) <= Len(gvURLs)
    /\ \A k \in 1..Len(gvTrace) :
         /\ gvTrace[k].url = gvURLs[k]
         /\ gvTrace[k].path = "/version"
         /\ k < Len(gvTrace) => gvTrace[k].kind # "ok"
    /\ gvPc = "loop" => NoSuccess(gvTrace)
    /\ gvPc = "done" =>
         IF NoSuccess(gvTrace)
         THEN Len(gvTrace) = Len(gvURLs) /\ gvRet.version = ""
         ELSE /\ gvRet.version = gvTrace[Len(gvTrace)].version
              /\ gvRet.err.isNil

\* The first endpoint is down, the second answers, and more would follow.
C2_Witness ==
    /\ gvPc = "done"
    /\ gvURLs = <<"http://down:1", "http://up:2">>
    /\ Len(gvTrace) = 2
    /\ gvTrace[1].kind = "transport"
    /\ gvTrace[2].kind = "ok"
    /\ gvRet.version = "3.5.0"

---------------------------------------------------------------------------
(* NewMember: properties *)

\* The sequences with the elements of s in some order.
PermsOf(s) == {[i \in 1..Len(s) |-> s[p[i]]] : p \in Permutations(1..Len(s))}

IsSorted(s) == \A i \in 1..Len(s), j \in 1..Len(s) : i < j => ~StrLess(s[j], s[i])

\* C3: the identity does not depend on the order of the endpoints: for a
\* non-empty endpoint sequence, a call with any permutation of it and the
\* same cluster name and time yields the same ID.
C3_OrderIndependent ==
    (nmRet.done /\ Len(nmArgs.peerURLs) > 0)
        => \A e2 \in PermsOf(nmArgs.peerURLs) :
             NewMember(nmArgs.name, e2, nmArgs.clusterName, nmArgs.now).m.ID = nmRet.m.ID

\* A call whose endpoints are out of order, with a time.
C3_Witness ==
    /\ nmRet.done
    /\ Len(nmArgs.peerURLs) = 2
    /\ StrLess(nmArgs.peerURLs[2], nmArgs.peerURLs[1])
    /\ nmArgs.now.present

\* C8: NewMember rejects an empty sequence of peer URLs: the call fails.
C8_EmptyEndpointsRejected ==
    (nmRet.done /\ Len(nmArgs.peerURLs) = 0) => nmRet.failed

\* C9: the record returned by NewMember holds the peer URLs in the
\* caller's original order.
C9_OriginalOrderKept ==
    nmRet.done => nmRet.m.PeerURLs = nmArgs.peerURLs

\* C9 as amended: the record returned by NewMember holds the caller's peer
\* URLs sorted lexicographically; it is the caller's order only when that
\* order was sorted already.
C9_SortedOrderKept ==
    nmRet.done =>
        /\ nmRet.m.PeerURLs \in PermsOf(nmArgs.peerURLs)
        /\ IsSorted(nmRet.m.PeerURLs)
        /\ (nmRet.m.PeerURLs = nmArgs.peerURLs) <=> IsSorted(nmArgs.peerURLs)

\* A call whose endpoints are out of order.
C9_Witness ==
    /\ nmRet.done
    /\ Len(nmArgs.peerURLs) = 2
    /\ StrLess(nmArgs.peerURLs[2], nmArgs.peerURLs[1])
    /\ nmRet.m.PeerURLs # nmArgs.peerURLs

NmInputs ==
    [peerURLs : SeqsUpTo(URLStrings, MaxURLs), clusterName : SaltStrings, now : Times]

---------------------------------------------------------------------------
(* The store codec: properties *)

ChildKeys(n) == {n.nodes[i].key : i \in 1..Len(n.nodes)}
RaftKeyOf(n) == Append(n.key, raftAttributesSuffix)
AttrKeyOf(n) == Append(n.key, attributesSuffix)
HasUnknownChild(n) == \E k \in ChildKeys(n) : k \notin {RaftKeyOf(n), AttrKeyOf(n)}
\* The blob of the one child with key k.
BlobOf(n, k) == n.nodes[CHOOSE i \in 1..Len(n.nodes) : n.nodes[i].key = k].value

\* A blob deserializes into {peerURLs: [string]}.
RaftBlobGood(d) ==
    d.t = "null" \/ (d.t = "obj" /\ d.o.peerURLs.t \in {"absent", "null", "arr"})
\* A blob deserializes into {name?: string, clientURLs?: [string]}.
AttrBlobGood(d) ==
    d.t = "null" \/ (d.t = "obj" /\ d.o.name.t \in {"absent", "null", "str"}
                                 /\ d.o.clientURLs.t \in {"absent", "null", "arr"})
\* The peer URLs a good raft-attributes blob spells.
PeerURLsIn(d) ==
    IF d.t = "obj" /\ d.o.peerURLs.t = "arr" THEN Slice(d.o.peerURLs.a) ELSE NilSlice

SetButEmpty(sl) == ~sl.isNil /\ Len(sl.elems) = 0

\* C4: encoding a record into the two blobs under its key and decoding the
\* subtree gives back the identical record.
C4_RoundTripIdentical ==
    (dec.done /\ rec.has) => (dec.err = "" /\ dec.hasM /\ dec.m = rec.m)

\* C4 as amended: the round trip gives back the identical record (ID, peer
\* URLs in stored order, name, client URLs) when the client URLs are absent
\* or non-empty; client URLs that are set but empty come back absent, the
\* other fields identical.
C4_RoundTrip ==
    (dec.done /\ rec.has) =>
        /\ dec.err = ""
        /\ dec.hasM
        /\ dec.m = IF SetButEmpty(rec.m.ClientURLs)
                   THEN [rec.m EXCEPT !.ClientURLs = NilSlice]
                   ELSE rec.m

\* A record with a two-digit key, peer URLs out of order, a name and client
\* URLs has gone through the round trip.
C4_Witness ==
    /\ dec.done
    /\ rec.has
    /\ rec.m.ID >= 16
    /\ rec.m.PeerURLs = Slice(<<"http://b:2", "http://a:1">>)
    /\ rec.m.Name = "m1"
    /\ rec.m.ClientURLs = Slice(<<"http://a:1">>)
    /\ dec.m = rec.m

\* C6: nodeToMember returns a record and no error exactly when every child
\* key is the raft-attributes key or the attributes key, the
\* raft-attributes child is there and deserializes, and the attributes
\* child is not there or deserializes.  Any other child key gives the
\* "unknown key" error, also without a raft-attributes child; no
\* raft-attributes child and no unknown child gives the missing error.
C6_DecodeErrors ==
    dec.done =>
        LET hasRaft == RaftKeyOf(node) \in ChildKeys(node)
            hasAttr == AttrKeyOf(node) \in ChildKeys(node)
        IN  /\ (dec.err = "" /\ dec.hasM)
                 <=> /\ ~HasUnknownChild(node)
                     /\ hasRaft
                     /\ RaftBlobGood(BlobOf(node, RaftKeyOf(node)))
                     /\ hasAttr => AttrBlobGood(BlobOf(node, AttrKeyOf(node)))
            /\ dec.err = "" => dec.hasM
            /\ HasUnknownChild(node) => dec.err = "unknown key"
            /\ (~HasUnknownChild(node) /\ ~hasRaft)
                 => dec.err = "raftAttributes key doesn't exist"

\* A subtree with an unknown child and no raft-attributes child was decoded.
C6_Witness ==
    /\ dec.done
    /\ HasUnknownChild(node)
    /\ RaftKeyOf(node) \notin ChildKeys(node)
    /\ dec.err = "unknown key"

\* C7: when the attributes blob is there and does not deserialize (the
\* raft-attributes blob having decoded), nodeToMember returns the error
\* together with a record holding the ID of the node key and the peer URLs
\* of the raft-attributes blob; with every other error no record is returned.
C7_PartialRecord ==
    dec.done =>
        LET hasRaft == RaftKeyOf(node) \in ChildKeys(node)
            hasAttr == AttrKeyOf(node) \in ChildKeys(node)
            attrFails == /\ ~HasUnknownChild(node)
                         /\ hasRaft
                         /\ RaftBlobGood(BlobOf(node, RaftKeyOf(node)))
                         /\ hasAttr
                         /\ ~AttrBlobGood(BlobOf(node, AttrKeyOf(node)))
        IN  /\ attrFails =>
                 /\ dec.err = "unmarshal attributes error"
                 /\ dec.hasM
                 /\ \E id \in IDs : node.key = memberStoreKey(id) /\ dec.m.ID = id
                 /\ dec.m.PeerURLs = PeerURLsIn(BlobOf(node, RaftKeyOf(node)))
            /\ (dec.err # "" /\ ~attrFails) => ~dec.hasM

\* The attributes blob did not deserialize under a two-digit key, next to
\* a raft-attributes blob with two peer URLs.
C7_Witness ==
    /\ dec.done
    /\ dec.err = "unmarshal attributes error"
    /\ dec.hasM
    /\ dec.m.ID >= 16
    /\ Len(dec.m.PeerURLs.elems) = 2
    /\ BlobOf(node, AttrKeyOf(node)).t = "obj"

---------------------------------------------------------------------------
(* Member.Clone: properties *)

Addrs(m) == IF m.isNil THEN {} ELSE {m.PeerURLs, m.ClientURLs} \ {0}

\* Right after the clone the copy equals the receiver field by field: nil
\* for nil, a nil slice for a nil slice, equal elements otherwise.
CloneEqual ==
    (clPc = "cloned" /\ clMuts = 0) =>
        /\ copy.isNil <=> orig.isNil
        /\ ~orig.isNil =>
             /\ copy.ID = orig.ID
             /\ copy.Name = orig.Name
             /\ (copy.PeerURLs = 0) <=> (orig.PeerURLs = 0)
             /\ (copy.ClientURLs = 0) <=> (orig.ClientURLs = 0)
             /\ View(heap, copy) = View(heap, orig)

\* The copy's slices have no backing array in common with the receiver's.
CloneDisjoint ==
    clPc = "cloned" => Addrs(copy) \cap Addrs(orig) = {}

\* A write through one of the two leaves what the other holds unchanged.
CloneFrame ==
    /\ WriteCopy => View(heap', orig') = View(heap, orig)
    /\ WriteOrig => View(heap', copy') = View(heap, copy)

\* C5: Clone(r) equals r field by field, nil and absent slices included,
\* and shares no storage with r: a later write to a slice of the copy
\* leaves r's slices unchanged, and the other way round.
C5_CloneIndependent ==
    [](CloneEqual /\ CloneDisjoint) /\ [][CloneFrame]_vars

\* A member with peer URLs and absent client URLs was cloned and the copy's
\* peer URLs were written: the two now differ.
C5_Witness ==
    /\ clPc = "cloned"
    /\ clMuts > 0
    /\ ~orig.isNil
    /\ orig.ClientURLs = 0
    /\ copy.ClientURLs = 0
    /\ orig.PeerURLs # 0
    /\ Deref(heap, orig.PeerURLs) = Slice(<<"http://a:1", "http://b:2">>)
    /\ Deref(heap, copy.PeerURLs) = Slice(<<"http://b:2", "http://b:2">>)

===========================================================================
